---- MODULE Spec2Model ----
(***************************************************************************)
(* System Administrator Email Alert System (system_monitor.py).            *)
(*                                                                         *)
(* One EmailAlertSystem object in one process: the threshold checks, the   *)
(* per-alert-type cooldown (alert_history), run_system_check and the       *)
(* start_monitoring loop, together with the callers the code allows for:   *)
(* stop_monitoring from another thread and a KeyboardInterrupt.            *)
(*                                                                         *)
(* Time is the value time.time() returns, in seconds, as an integer.       *)
(* Percentages and the load average are integers.                          *)
(***************************************************************************)
EXTENDS Integers, Sequences, FiniteSets, TLC

\* ------------------------------------------------------------------ bounds
\* The clock is followed up to MaxTime.
MaxTime == 45
\* The largest number of disk partitions of an enumerated snapshot.
MaxMounts == 3
\* The largest number of processes of an enumerated snapshot.
MaxProcs == 6
\* The largest number of processes started one after the other.
MaxRuns == 2

\* ------------------------------------------------------ program constants
BackoffSeconds == 30
CpuSampleSeconds == 1
NeverSent == 0
CpuHighMargin == 95
LoadHighMargin == 8
MemoryHighMargin == 95
DiskHighMargin == 95
SwapThreshold == 50
ProcessThreshold == 50
TopProcesses == 5

AlertTypes ==
    {"cpu_high", "load_high", "memory_high", "swap_high", "disk_high",
     "process_high_cpu"}

\* default_config["thresholds"] and default_config["monitoring"].
DefaultThresholds ==
    [cpu_percent |-> 80, memory_percent |-> 85, disk_percent |-> 90,
     load_average |-> 4]

\* ------------------------------------------------------------- utilities
Min(a, b) == IF a < b THEN a ELSE b

SeqsUpTo(S, n) == UNION {[1..k -> S] : k \in 0..n}

EmptyHistory == [k \in {} |-> 0]

\* dict.get(key, default)
Get(h, k, d) == IF k \in DOMAIN h THEN h[k] ELSE d

\* dict[key] = value
Put(h, k, v) == [x \in (DOMAIN h) \cup {k} |-> IF x = k THEN v ELSE h[x]]

\* ------------------------------------------------------------- evaluator
\* One alert dictionary.  The rendered message is kept as what it embeds:
\* the mount or pid it names (0 for a host-wide gauge).
Alert(type, id, value, threshold, priority) ==
    [type |-> type, id |-> id, value |-> value, threshold |-> threshold,
     priority |-> priority]

CheckCpuUsage_Inclusive(snap, th) ==
    (IF snap.cpu_percent >= th.cpu_percent
        THEN <<Alert("cpu_high", 0, snap.cpu_percent, th.cpu_percent,
                     IF snap.cpu_percent > CpuHighMargin
                        THEN "high" ELSE "medium")>>
        ELSE <<>>)
    \o
    (IF snap.load_avg > th.load_average
        THEN <<Alert("load_high", 0, snap.load_avg, th.load_average,
                     IF snap.load_avg > LoadHighMargin
                        THEN "high" ELSE "medium")>>
        ELSE <<>>)

\* check_cpu_usage: the cpu rule, then the load rule.
CheckCpuUsage(snap, th) ==
    (IF snap.cpu_percent > th.cpu_percent
        THEN <<Alert("cpu_high", 0, snap.cpu_percent, th.cpu_percent,
                     IF snap.cpu_percent > CpuHighMargin
                        THEN "high" ELSE "medium")>>
        ELSE <<>>)
    \o
    (IF snap.load_avg > th.load_average
        THEN <<Alert("load_high", 0, snap.load_avg, th.load_average,
                     IF snap.load_avg > LoadHighMargin
                        THEN "high" ELSE "medium")>>
        ELSE <<>>)

\* check_memory_usage: the memory rule, then the swap rule.
CheckMemoryUsage(snap, th) ==
    (IF snap.memory_percent > th.memory_percent
        THEN <<Alert("memory_high", 0, snap.memory_percent, th.memory_percent,
                     IF snap.memory_percent > MemoryHighMargin
                        THEN "high" ELSE "medium")>>
        ELSE <<>>)
    \o
    (IF snap.swap_percent > SwapThreshold
        THEN <<Alert("swap_high", 0, snap.swap_percent, SwapThreshold, "high")>>
        ELSE <<>>)

RECURSIVE DiskAlertsFrom_StopAtDenied(_, _, _)
DiskAlertsFrom_StopAtDenied(parts, i, th) ==
    IF i > Len(parts) \/ parts[i].denied THEN <<>>
    ELSE (IF parts[i].percent > th.disk_percent
             THEN <<Alert("disk_high", i, parts[i].percent, th.disk_percent,
                          IF parts[i].percent > DiskHighMargin
                             THEN "high" ELSE "medium")>>
             ELSE <<>>)
         \o DiskAlertsFrom_StopAtDenied(parts, i + 1, th)

\* check_disk_usage: the loop over psutil.disk_partitions(); partition i is
\* the i-th mount enumerated, denied when disk_usage raises PermissionError.
RECURSIVE DiskAlertsFrom(_, _, _)
DiskAlertsFrom(parts, i, th) ==
    IF i > Len(parts) THEN <<>>
    ELSE (IF ~parts[i].denied /\ parts[i].percent > th.disk_percent
             THEN <<Alert("disk_high", i, parts[i].percent, th.disk_percent,
                          IF parts[i].percent > DiskHighMargin
                             THEN "high" ELSE "medium")>>
             ELSE <<>>)
         \o DiskAlertsFrom(parts, i + 1, th)

CheckDiskUsage(snap, th) == DiskAlertsFrom(snap.partitions, 1, th)

\* disk_info: mount -> percent used, for the mounts whose usage was read.
DiskInfo(snap) ==
    [i \in {j \in 1..Len(snap.partitions) : ~snap.partitions[j].denied} |->
        snap.partitions[i].percent]

\* list.sort(key=cpu, reverse=True): stable, descending.
RECURSIVE InsertDesc(_, _)
InsertDesc(p, s) ==
    IF s = <<>> THEN <<p>>
    ELSE IF Head(s).cpu >= p.cpu THEN <<Head(s)>> \o InsertDesc(p, Tail(s))
    ELSE <<p>> \o s

RECURSIVE SortDesc(_)
SortDesc(s) ==
    IF s = <<>> THEN <<>>
    ELSE InsertDesc(s[Len(s)], SortDesc(SubSeq(s, 1, Len(s) - 1)))

\* processes[:5] after the sort; the pid of a process is its place in
\* process_iter's enumeration.
TopProcessList(snap) ==
    LET procs == [i \in 1..Len(snap.processes) |->
                     [pid |-> i, cpu |-> snap.processes[i]]]
        sorted == SortDesc(procs)
    IN  SubSeq(sorted, 1, Min(TopProcesses, Len(sorted)))

RECURSIVE ProcessAlertsFrom(_, _)
ProcessAlertsFrom(top, i) ==
    IF i > Len(top) THEN <<>>
    ELSE (IF top[i].cpu > ProcessThreshold
             THEN <<Alert("process_high_cpu", top[i].pid, top[i].cpu,
                          ProcessThreshold, "medium")>>
             ELSE <<>>)
         \o ProcessAlertsFrom(top, i + 1)

CheckSystemProcesses(snap) == ProcessAlertsFrom(TopProcessList(snap), 1)

AllAlerts_DiskFirst(snap, th) ==
    CheckCpuUsage(snap, th) \o CheckDiskUsage(snap, th)
        \o CheckMemoryUsage(snap, th) \o CheckSystemProcesses(snap)

\* all_alerts of run_system_check: the four checks' alerts, in call order.
AllAlerts(snap, th) ==
    CheckCpuUsage(snap, th) \o CheckMemoryUsage(snap, th)
        \o CheckDiskUsage(snap, th) \o CheckSystemProcesses(snap)

\* ------------------------------------------------------------ cooldown
ShouldSendAlert_AlwaysStamp(h, alert_type, t, cooldown) ==
    LET last_sent == Get(h, alert_type, NeverSent)
    IN  [ret |-> t - last_sent > cooldown, history |-> Put(h, alert_type, t)]

ShouldSendAlert_Inclusive(h, alert_type, t, cooldown) ==
    LET last_sent == Get(h, alert_type, NeverSent)
    IN  IF t - last_sent >= cooldown
           THEN [ret |-> TRUE, history |-> Put(h, alert_type, t)]
           ELSE [ret |-> FALSE, history |-> h]

ShouldSendAlert_NoRecord(h, alert_type, t, cooldown) ==
    LET last_sent == Get(h, alert_type, NeverSent)
    IN  [ret |-> t - last_sent > cooldown, history |-> h]

ShouldSendAlert_FirstAlways(h, alert_type, t, cooldown) ==
    IF alert_type \notin DOMAIN h \/ t - h[alert_type] > cooldown
       THEN [ret |-> TRUE, history |-> Put(h, alert_type, t)]
       ELSE [ret |-> FALSE, history |-> h]

\* should_send_alert at clock reading t: the returned flag and the
\* alert_history it leaves.
ShouldSendAlert(h, alert_type, t, cooldown) ==
    LET last_sent == Get(h, alert_type, NeverSent)
    IN  IF t - last_sent > cooldown
           THEN [ret |-> TRUE, history |-> Put(h, alert_type, t)]
           ELSE [ret |-> FALSE, history |-> h]

\* ---------------------------------------------------------- configuration
\* default_config of load_config.
default_config ==
    [smtp |-> [server |-> "smtp.gmail.com", port |-> 587,
               username |-> "your-email@gmail.com",
               password |-> "your-app-password", use_tls |-> TRUE],
     alerts |-> [from_email |-> "alerts@yourcompany.com",
                 to_emails |-> <<"admin1@yourcompany.com",
                                 "admin2@yourcompany.com">>,
                 subject_prefix |-> "[SYSTEM ALERT]"],
     thresholds |-> DefaultThresholds,
     monitoring |-> [check_interval |-> 60, cooldown_period |-> 300]]

\* A configuration file: absent, or holding a JSON object.
NoFile == [exists |-> FALSE, content |-> [k \in {} |-> 0]]
FileWith(content) == [exists |-> TRUE, content |-> content]

LoadConfig_DeepMerge(file) ==
    IF file.exists
       THEN [key \in DOMAIN file.content \cup DOMAIN default_config |->
                IF key \notin DOMAIN file.content THEN default_config[key]
                ELSE IF key \notin DOMAIN default_config
                        THEN file.content[key]
                ELSE [k \in DOMAIN file.content[key]
                             \cup DOMAIN default_config[key] |->
                         IF k \in DOMAIN file.content[key]
                            THEN file.content[key][k]
                            ELSE default_config[key][k]]]
       ELSE default_config

\* load_config: the object read, with every top-level key of default_config
\* it lacks set to the default section; default_config when open() raises
\* FileNotFoundError.
LoadConfig(file) ==
    IF file.exists
       THEN [key \in DOMAIN file.content \cup DOMAIN default_config |->
                IF key \in DOMAIN file.content
                   THEN file.content[key] ELSE default_config[key]]
       ELSE default_config

\* The file load_config leaves on disk: json.dump(default_config) when
\* there was none.
FileAfterLoad(file) == IF file.exists THEN file ELSE FileWith(default_config)

\* ----------------------------------------------------------------- inputs
\* cooldown_period and check_interval of the loaded configuration.
CooldownChoices == {3, 21}
IntervalChoices == {20}

\* Seconds between two statements of the for loop of run_system_check
\* (scheduling, logging), and seconds a send_email call blocks: the SMTP
\* session has no timeout.
GateLatencies == {0, 1}
SendDurations == {0, 4}

\* Clock readings at construction: a clock at the epoch and one past every
\* cooldown period.
InitialTimes == {0, 22}

Part(percent) == [denied |-> FALSE, percent |-> percent]
DeniedPart == [denied |-> TRUE, percent |-> 0]

Snap(cpu, load, mem, swap, parts, procs) ==
    [cpu_percent |-> cpu, load_avg |-> load, memory_percent |-> mem,
     swap_percent |-> swap, partitions |-> parts, processes |-> procs]

\* The state before any metric was read.
NoSnapshot == Snap(0, 0, 0, 0, <<>>, <<>>)

\* Snapshots the monitoring loop meets: nothing breached; cpu breached;
\* two mounts breached behind an unreadable one; cpu and two mounts.
LoopSnapshots ==
    {Snap(10, 1, 20, 0, <<Part(40)>>, <<5, 3>>),
     Snap(97, 1, 20, 0, <<Part(40)>>, <<5, 3>>),
     Snap(10, 1, 20, 0, <<DeniedPart, Part(91), Part(96)>>, <<5, 3>>),
     Snap(85, 1, 20, 0, <<Part(91), Part(96)>>, <<5, 3>>)}

\* Seconds between the end of one process and the start of the next.
RestartGaps == {0, 20}

\* Snapshots of a single pass: the four gauges breached; swap, two mounts
\* around an unreadable one and two processes; six busy processes; load,
\* memory, one mount and one process.
PassSnapshots ==
    {Snap(97, 9, 96, 51, <<Part(40)>>, <<5, 3>>),
     Snap(10, 1, 20, 51, <<Part(96), DeniedPart, Part(91)>>, <<60, 3, 70>>),
     Snap(10, 1, 20, 0, <<Part(40)>>, <<51, 60, 60, 70, 80, 90>>),
     Snap(10, 9, 96, 0, <<Part(91)>>, <<60>>)}

\* ------------------------------------------------------------------ state
VARIABLES
    config,         \* self.config: thresholds and monitoring sections
    now,            \* what time.time() returns
    running,        \* self.running
    alert_history,  \* self.alert_history: alert type -> last admitted time
    pc,             \* where the thread of main() is
    snapshot,       \* the gauges read by the four checks of this pass
    all_alerts,     \* all_alerts of run_system_check
    idx,            \* position of the for loop in all_alerts
    cycleLog,       \* this pass: one entry per should_send_alert call
    notifyLog,      \* this process: the send_email calls made for alerts
    everGated,      \* alert types should_send_alert was ever called with
    stopCalled,     \* stop_monitoring was called from outside the loop
    cycleAfterStop, \* a pass began after that call
    interrupted,    \* a KeyboardInterrupt was delivered
    failedAt,       \* clock reading of a collection failure not yet followed
                    \* by a completed collection, -1 otherwise
    lastSleep,      \* seconds asked of the loop's latest time.sleep call
    config_file,    \* the configuration file on disk
    mode,           \* the branch main() took: "none", "monitor", "check"
    disk_usage,     \* disk_data['disk_usage'] of this pass
    passStart,      \* alert_history when this pass began
    run,            \* how many processes were started on this host so far
    earlier         \* alert type -> last admitted time in earlier processes

vars ==
    <<config, now, running, alert_history, pc, snapshot, all_alerts, idx,
      cycleLog, notifyLog, everGated, stopCalled, cycleAfterStop,
      interrupted, failedAt, lastSleep, config_file, mode, disk_usage,
      passStart, run, earlier>>

cooldown_period == config.monitoring.cooldown_period
check_interval == config.monitoring.check_interval

\* __init__ has run on a configuration file, and main() has not yet
\* dispatched.
Constructed(file, t) ==
    /\ config = LoadConfig(file)
    /\ config_file = FileAfterLoad(file)
    /\ mode = "none"
    /\ disk_usage = EmptyHistory
    /\ passStart = EmptyHistory
    /\ run = 1
    /\ earlier = EmptyHistory
    /\ now = t
    /\ running = FALSE
    /\ alert_history = EmptyHistory
    /\ pc = "idle"
    /\ snapshot = NoSnapshot
    /\ all_alerts = <<>>
    /\ idx = 1
    /\ cycleLog = <<>>
    /\ notifyLog = {}
    /\ everGated = {}
    /\ stopCalled = FALSE
    /\ cycleAfterStop = FALSE
    /\ interrupted = FALSE
    /\ failedAt = -1
    /\ lastSleep = 0

Init ==
    \E cd \in CooldownChoices, iv \in IntervalChoices, t \in InitialTimes :
        Constructed(FileWith([thresholds |-> DefaultThresholds,
                              monitoring |-> [check_interval |-> iv,
                                              cooldown_period |-> cd]]), t)

history == <<cycleLog, notifyLog, everGated, stopCalled, cycleAfterStop,
             interrupted, failedAt, lastSleep>>

\* What only main(), a pass or a new process changes.
rest == <<config_file, mode, disk_usage, passStart, run, earlier>>

\* ------------------------------------------------------------ the process
\* The process has ended and the command is run again: nothing of the old
\* process's memory is left but what the new one will build.
NewProcess ==
    /\ pc = "exited"
    /\ run < MaxRuns
    /\ \E g \in RestartGaps :
          /\ now + g <= MaxTime
          /\ now' = now + g
    /\ run' = run + 1
    /\ earlier' = [ty \in DOMAIN earlier \cup DOMAIN alert_history |->
                      IF ty \in DOMAIN alert_history
                         THEN alert_history[ty] ELSE earlier[ty]]
    /\ pc' = "constructing"
    /\ mode' = "none"
    /\ snapshot' = NoSnapshot
    /\ all_alerts' = <<>>
    /\ idx' = 1
    /\ disk_usage' = EmptyHistory
    /\ passStart' = EmptyHistory
    /\ cycleLog' = <<>>
    /\ notifyLog' = {}
    /\ everGated' = {}
    /\ stopCalled' = FALSE
    /\ cycleAfterStop' = FALSE
    /\ interrupted' = FALSE
    /\ failedAt' = -1
    /\ lastSleep' = 0
    /\ UNCHANGED <<config, config_file, running, alert_history>>

NewAlertHistory_Persisted(previous) == previous

\* self.alert_history = {}: whatever an earlier process held.
NewAlertHistory(previous) == EmptyHistory

\* EmailAlertSystem(args.config): __init__ of the new process.
Construct ==
    /\ pc = "constructing"
    /\ config' = LoadConfig(config_file)
    /\ config_file' = FileAfterLoad(config_file)
    /\ alert_history' = NewAlertHistory(alert_history)
    /\ running' = FALSE
    /\ pc' = "idle"
    /\ UNCHANGED <<now, snapshot, all_alerts, idx, history, mode, disk_usage,
                   passStart, run, earlier>>

\* ------------------------------------------------------- start_monitoring
\* main() calls start_monitoring; its first statement has not run yet.
StartMonitoring ==
    /\ pc = "idle"
    /\ mode' = "monitor"
    /\ pc' = "starting"
    /\ UNCHANGED <<config, now, running, alert_history, snapshot, all_alerts,
                   idx, history, config_file, disk_usage,
                   passStart, run, earlier>>

\* self.running = True
SetRunning ==
    /\ pc = "starting"
    /\ running' = TRUE
    /\ pc' = "loop"
    /\ UNCHANGED <<config, now, alert_history, snapshot, all_alerts, idx,
                   history, rest>>

\* while self.running: enter run_system_check, or leave the loop.
LoopTest ==
    /\ pc = "loop"
    /\ IF running
          THEN /\ pc' = "collect"
               /\ cycleLog' = <<>>
               /\ cycleAfterStop' = (cycleAfterStop \/ stopCalled)
               /\ passStart' = alert_history
          ELSE /\ pc' = "exited"
               /\ UNCHANGED <<cycleLog, cycleAfterStop, passStart>>
    /\ UNCHANGED <<config, now, running, alert_history, snapshot, all_alerts,
                   idx, notifyLog, everGated, stopCalled, interrupted,
                   failedAt, lastSleep, config_file, mode, disk_usage, run,
                   earlier>>

\* The four check_* calls return: cpu_percent(interval=1) blocked for the
\* sampling interval, and all_alerts is built from the gauges read.
CollectOk(snap) ==
    /\ pc = "collect"
    /\ now + CpuSampleSeconds <= MaxTime
    /\ now' = now + CpuSampleSeconds
    /\ snapshot' = snap
    /\ all_alerts' = AllAlerts(snap, config.thresholds)
    /\ disk_usage' = DiskInfo(snap)
    /\ idx' = 1
    /\ pc' = "gate"
    /\ failedAt' = -1
    /\ UNCHANGED <<config, running, alert_history, cycleLog, notifyLog,
                   everGated, stopCalled, cycleAfterStop, interrupted,
                   lastSleep,
                   config_file, mode, passStart, run, earlier>>

\* Where a pass goes when an Exception leaves run_system_check.
AfterCollectFailure == "backoff"

\* One of the check_* calls raises an Exception (psutil fails, a process
\* reports no cpu_percent, a partition of size zero), before or after the
\* sampling interval: the except clause of the loop catches it; under
\* --check nothing catches it and the process ends.
CollectFail ==
    /\ pc = "collect"
    /\ \E d \in {0, CpuSampleSeconds} :
          /\ now + d <= MaxTime
          /\ now' = now + d
    /\ pc' = IF mode = "check" THEN "exited" ELSE AfterCollectFailure
    /\ failedAt' = now'
    /\ UNCHANGED <<config, running, alert_history, snapshot, all_alerts, idx,
                   cycleLog, notifyLog, everGated, stopCalled, cycleAfterStop,
                   interrupted, lastSleep, rest>>

\* main() under --check: alert_system.run_system_check() is entered once.
RunCheck ==
    /\ pc = "idle"
    /\ mode' = "check"
    /\ pc' = "collect"
    /\ cycleLog' = <<>>
    /\ passStart' = alert_history
    /\ UNCHANGED <<config, now, running, alert_history, snapshot, all_alerts,
                   idx, notifyLog, everGated, stopCalled, cycleAfterStop,
                   interrupted, failedAt, lastSleep, config_file, disk_usage,
                   run, earlier>>

\* ------------------------------------------------------- run_system_check
Candidate == all_alerts[idx]

\* The entry of the pass's last should_send_alert call.
LastGate == cycleLog[Len(cycleLog)]

AfterShouldSendAlert_Always(ret) == "send"

\* if self.should_send_alert(...): the report and the send_email call on
\* true, the next candidate on false.
AfterShouldSendAlert(ret) == IF ret THEN "send" ELSE "gate"

\* for alert in all_alerts: if self.should_send_alert(alert['type']):
Gate ==
    /\ pc = "gate"
    /\ idx <= Len(all_alerts)
    /\ "cooldown_period" \in DOMAIN config.monitoring
    /\ \E d \in GateLatencies :
          /\ now + d <= MaxTime
          /\ now' = now + d
    /\ LET r == ShouldSendAlert(alert_history, Candidate.type, now',
                                cooldown_period)
       IN  /\ alert_history' = r.history
           /\ cycleLog' = Append(cycleLog,
                  [idx |-> idx, type |-> Candidate.type, at |-> now',
                   first |-> Candidate.type \notin everGated,
                   firedBefore |-> Get(alert_history, Candidate.type, -1),
                   admitted |-> r.ret,
                   sent |-> IF r.ret THEN "pending" ELSE "no",
                   sends |-> 0, priority |-> "none"])
           /\ everGated' = everGated \cup {Candidate.type}
           /\ pc' = AfterShouldSendAlert(r.ret)
           /\ idx' = IF pc' = "send" THEN idx ELSE idx + 1
    /\ UNCHANGED <<config, running, snapshot, all_alerts, notifyLog,
                   stopCalled, cycleAfterStop, interrupted, failedAt,
                   lastSleep, rest>>

\* should_send_alert raises KeyError at
\* self.config['monitoring']['cooldown_period'], before it compares or
\* writes anything: the Exception leaves run_system_check.
GateRaises ==
    /\ pc = "gate"
    /\ idx <= Len(all_alerts)
    /\ "cooldown_period" \notin DOMAIN config.monitoring
    /\ \E d \in GateLatencies :
          /\ now + d <= MaxTime
          /\ now' = now + d
    /\ pc' = IF mode = "check" THEN "exited" ELSE AfterCollectFailure
    /\ UNCHANGED <<config, running, alert_history, snapshot, all_alerts, idx,
                   history, rest>>

\* The for loop is exhausted (or all_alerts was empty): run_system_check
\* returns to the loop, which sleeps, or to main() under --check, which
\* returns.
GateDone ==
    /\ pc = "gate"
    /\ idx > Len(all_alerts)
    /\ pc' = IF mode = "check" THEN "exited" ELSE "sleep"
    /\ UNCHANGED <<config, now, running, alert_history, snapshot, all_alerts,
                   idx, history, rest>>

AfterSendEmail_Raises(ok) == IF ok THEN "gate" ELSE "backoff"

\* send_email returns True, or catches the Exception and returns False;
\* run_system_check ignores the value and goes on with the for loop.
AfterSendEmail(ok) == "gate"

HistoryAfterSend_RollBack(h, alert_type, ok) ==
    IF ok THEN h ELSE [x \in (DOMAIN h) \ {alert_type} |-> h[x]]

HistoryAfterSend_ClearOnFailure(h, alert_type, ok) ==
    IF ok THEN h ELSE EmptyHistory

\* send_email does not touch alert_history.
HistoryAfterSend(h, alert_type, ok) == h

\* self.send_email(subject, report, alert['priority']) for the admitted
\* candidate returns, d seconds after it was called.
SendEmail(ok, d) ==
    /\ pc = "send"
    /\ now + d <= MaxTime
    /\ now' = now + d
    /\ notifyLog' = notifyLog \cup
          {[seq |-> Cardinality(notifyLog) + 1, type |-> Candidate.type,
            at |-> LastGate.at, ok |-> ok]}
    /\ cycleLog' = [cycleLog EXCEPT
                       ![Len(cycleLog)].sent = IF ok THEN "ok" ELSE "failed",
                       ![Len(cycleLog)].sends = @ + 1,
                       ![Len(cycleLog)].priority = Candidate.priority]
    /\ alert_history' = HistoryAfterSend(alert_history, Candidate.type, ok)
    /\ idx' = idx + 1
    /\ pc' = AfterSendEmail(ok)
    /\ UNCHANGED <<config, running, snapshot, all_alerts, everGated,
                   stopCalled, cycleAfterStop, interrupted, failedAt, lastSleep, rest>>

\* --------------------------------------------------------------- the loop
\* time.sleep(self.config['monitoring']['check_interval'])
Sleep ==
    /\ pc = "sleep"
    /\ now + check_interval <= MaxTime
    /\ now' = now + check_interval
    /\ lastSleep' = check_interval
    /\ pc' = "loop"
    /\ UNCHANGED <<config, running, alert_history, snapshot, all_alerts, idx,
                   cycleLog, notifyLog, everGated, stopCalled,
                   cycleAfterStop, interrupted, failedAt, rest>>

BackoffDelay_Interval(cfg) == cfg.monitoring.check_interval

\* time.sleep(30) of the except clause.
BackoffDelay(cfg) == BackoffSeconds

Backoff ==
    /\ pc = "backoff"
    /\ now + BackoffDelay(config) <= MaxTime
    /\ now' = now + BackoffDelay(config)
    /\ lastSleep' = BackoffDelay(config)
    /\ pc' = "loop"
    /\ UNCHANGED <<config, running, alert_history, snapshot, all_alerts, idx,
                   cycleLog, notifyLog, everGated, stopCalled,
                   cycleAfterStop, interrupted, failedAt, rest>>

\* stop_monitoring, called by another thread once start_monitoring was
\* called.
StopMonitoring ==
    /\ pc # "idle"
    /\ running' = FALSE
    /\ stopCalled' = TRUE
    /\ UNCHANGED <<config, now, alert_history, pc, snapshot, all_alerts, idx,
                   cycleLog, notifyLog, everGated, cycleAfterStop,
                   interrupted, failedAt, lastSleep, rest>>

\* KeyboardInterrupt inside the try block of the loop (run_system_check or
\* the interval sleep): except KeyboardInterrupt logs and breaks, and
\* start_monitoring returns normally to main().
InterruptInTry ==
    /\ pc \in {"collect", "gate", "send", "sleep"}
    /\ pc' = "exited"
    /\ interrupted' = TRUE
    /\ UNCHANGED <<config, now, running, alert_history, snapshot, all_alerts,
                   idx, cycleLog, notifyLog, everGated, stopCalled,
                   cycleAfterStop, failedAt, lastSleep, rest>>

\* KeyboardInterrupt outside the try block (before the loop, at the while
\* test, in the except clause's sleep): it leaves start_monitoring and
\* main() calls stop_monitoring.
InterruptOutsideTry ==
    /\ pc \in {"starting", "loop", "backoff"}
    /\ pc' = "exited"
    /\ running' = FALSE
    /\ interrupted' = TRUE
    /\ UNCHANGED <<config, now, alert_history, snapshot, all_alerts, idx,
                   cycleLog, notifyLog, everGated, stopCalled, cycleAfterStop,
                   failedAt, lastSleep, rest>>

Next ==
    \/ StartMonitoring
    \/ SetRunning
    \/ LoopTest
    \/ \E snap \in LoopSnapshots : CollectOk(snap)
    \/ CollectFail
    \/ Gate
    \/ GateDone
    \/ \E ok \in BOOLEAN, d \in SendDurations : SendEmail(ok, d)
    \/ Sleep
    \/ Backoff
    \/ StopMonitoring
    \/ InterruptInTry
    \/ InterruptOutsideTry

Spec == Init /\ [][Next]_vars

\* The loop on a configuration file whose monitoring section may lack
\* cooldown_period.
LooseInit ==
    \/ Init
    \/ \E iv \in IntervalChoices, t \in InitialTimes :
          Constructed(FileWith([thresholds |-> DefaultThresholds,
                                monitoring |-> [check_interval |-> iv]]), t)

LooseNext ==
    \/ Next
    \/ GateRaises

LooseSpec == LooseInit /\ [][LooseNext]_vars

\* The loop as the liveness claim supposes it: nobody stops or interrupts
\* it, collection never fails and every snapshot breaches the cpu
\* threshold.
LiveSnapshots == {snap \in LoopSnapshots : snap.cpu_percent > 80}

LiveNext ==
    \/ StartMonitoring
    \/ SetRunning
    \/ LoopTest
    \/ \E snap \in LiveSnapshots : CollectOk(snap)
    \/ Gate
    \/ GateRaises
    \/ GateDone
    \/ \E ok \in BOOLEAN, d \in SendDurations : SendEmail(ok, d)
    \/ Sleep
    \/ Backoff

\* The thread keeps running and every call it blocks in returns.
LiveSpec == LooseInit /\ [][LiveNext]_vars /\ WF_vars(LiveNext)

\* ------------------------------------------------- the evaluator's inputs
CpuReadings == {80, 81, 95, 96}
LoadReadings == {4, 5, 8, 9}
MemoryReadings == {85, 86, 95, 96}
SwapReadings == {50, 51}
PartReadings == {Part(90), Part(91), Part(95), Part(96), DeniedPart}
ProcessReadings == {50, 51, 60}

\* The default thresholds, and thresholds configured at the high margins.
ThresholdChoices ==
    {DefaultThresholds,
     [cpu_percent |-> 95, memory_percent |-> 95, disk_percent |-> 95,
      load_average |-> 8]}

PartSamples == {<<>>, <<DeniedPart, Part(96)>>}
ProcessSamples == {<<>>, <<51, 50, 60>>}

\* Every combination of the four host-wide gauges, every list of partitions
\* and every list of processes, each against samples of the others.
AllSnapshots ==
    {Snap(c, l, m, w, parts, procs) :
        c \in CpuReadings, l \in LoadReadings, m \in MemoryReadings,
        w \in SwapReadings, parts \in PartSamples, procs \in ProcessSamples}
    \cup
    {Snap(g[1], g[2], g[3], g[4], parts, procs) :
        g \in {<<80, 4, 85, 50>>, <<96, 9, 96, 51>>},
        parts \in SeqsUpTo(PartReadings, MaxMounts),
        procs \in ProcessSamples}
    \cup
    {Snap(g[1], g[2], g[3], g[4], parts, procs) :
        g \in {<<80, 4, 85, 50>>, <<96, 9, 96, 51>>},
        parts \in PartSamples,
        procs \in SeqsUpTo(ProcessReadings, MaxProcs)}

\* One pass's collection over every snapshot and threshold configuration.
EvalInit ==
    \E th \in ThresholdChoices :
        Constructed(FileWith([thresholds |-> th,
                              monitoring |-> [check_interval |-> 20,
                                              cooldown_period |-> 3]]), 0)

EvalNext ==
    \/ StartMonitoring
    \/ SetRunning
    \/ LoopTest
    \/ \E snap \in AllSnapshots : CollectOk(snap)

EvalSpec == EvalInit /\ [][EvalNext]_vars

\* A single --check run over the snapshots of a pass.
PassNext ==
    \/ RunCheck
    \/ \E snap \in PassSnapshots : CollectOk(snap)
    \/ Gate
    \/ GateDone
    \/ \E ok \in BOOLEAN, d \in SendDurations : SendEmail(ok, d)

PassSpec == Init /\ [][PassNext]_vars

\* ----------------------------------------------- load_config's inputs
\* For each section of a configuration file: a complete section with
\* values of its own, and a section that lacks keys.
SectionSamples ==
    [smtp |-> {[server |-> "mail.example.org", port |-> 25,
                username |-> "monitor", password |-> "secret",
                use_tls |-> FALSE],
               [server |-> "mail.example.org"]},
     alerts |-> {[from_email |-> "monitor@example.org",
                  to_emails |-> <<"ops@example.org">>,
                  subject_prefix |-> "[OPS]"],
                 [to_emails |-> <<"ops@example.org">>]},
     thresholds |-> {[cpu_percent |-> 95, memory_percent |-> 95,
                      disk_percent |-> 95, load_average |-> 8],
                     [cpu_percent |-> 95]},
     monitoring |-> {[check_interval |-> 20, cooldown_period |-> 3],
                     [check_interval |-> 20]}]

\* No file, and a file for every choice of sections present, each complete
\* or lacking keys.
ConfigFiles ==
    {NoFile} \cup
    {FileWith(content) :
        content \in UNION {
            {f \in [present -> UNION {SectionSamples[x] :
                                        x \in DOMAIN SectionSamples}] :
                \A x \in present : f[x] \in SectionSamples[x]} :
            present \in SUBSET DOMAIN SectionSamples}}

\* A process started on a configuration file, before __init__ has run.
Unbuilt(file, t) ==
    /\ config = [k \in {} |-> 0]
    /\ config_file = file
    /\ mode = "none"
    /\ disk_usage = EmptyHistory
    /\ passStart = EmptyHistory
    /\ run = 1
    /\ earlier = EmptyHistory
    /\ now = t
    /\ running = FALSE
    /\ alert_history = EmptyHistory
    /\ pc = "constructing"
    /\ snapshot = NoSnapshot
    /\ all_alerts = <<>>
    /\ idx = 1
    /\ cycleLog = <<>>
    /\ notifyLog = {}
    /\ everGated = {}
    /\ stopCalled = FALSE
    /\ cycleAfterStop = FALSE
    /\ interrupted = FALSE
    /\ failedAt = -1
    /\ lastSleep = 0

ConfigInit == \E file \in ConfigFiles : Unbuilt(file, 0)

ConfigNext == Construct

ConfigSpec == ConfigInit /\ [][ConfigNext]_vars

\* The command run with --check, again and again.
CliNext ==
    \/ RunCheck
    \/ \E snap \in LoopSnapshots : CollectOk(snap)
    \/ CollectFail
    \/ Gate
    \/ GateDone
    \/ \E ok \in BOOLEAN, d \in SendDurations : SendEmail(ok, d)
    \/ NewProcess
    \/ Construct

CliSpec == Init /\ [][CliNext]_vars

\* ================================================================ claims
\* A step that is one should_send_alert call: only Gate extends cycleLog.
GateCall == Len(cycleLog') = Len(cycleLog) + 1

\* C1: should_send_alert(type), reading the clock at t, returns true exactly
\* when t - lastFired[type] > cooldown, an absent entry counting as 0; on
\* true it sets lastFired[type] to t, on false it leaves the whole map
\* unchanged, and in both cases every other type's entry is unchanged.
C1_AdmitContract ==
    [][GateCall =>
        LET ty == all_alerts[idx].type
            t == now'
            last == IF ty \in DOMAIN alert_history
                       THEN alert_history[ty] ELSE 0
            ret == (pc' = "send")
        IN  /\ ret <=> (t - last > config.monitoring.cooldown_period)
            /\ ret => /\ ty \in DOMAIN alert_history'
                      /\ alert_history'[ty] = t
            /\ ~ret => alert_history' = alert_history
            /\ \A o \in AlertTypes \ {ty} :
                  /\ o \in DOMAIN alert_history' <=> o \in DOMAIN alert_history
                  /\ o \in DOMAIN alert_history =>
                        alert_history'[o] = alert_history[o]
    ]_vars

\* C1 witness: in one pass a call was admitted and a call was rejected while
\* another alert type had an entry in the map.
C1_Witness ==
    /\ Cardinality(DOMAIN alert_history) = 2
    /\ \E i, j \in DOMAIN cycleLog :
          /\ cycleLog[i].admitted
          /\ ~cycleLog[j].admitted
          /\ cycleLog[j].firedBefore > 0

\* C2 (as claimed): the first should_send_alert call for a type returns
\* true; a later call no more than cooldown after the call that last
\* returned true returns false, the boundary included; a call more than
\* cooldown after it returns true.
C2_FirstAdmitThenWindow ==
    \A i \in DOMAIN cycleLog :
        LET e == cycleLog[i]
        IN  /\ e.first => e.admitted
            /\ (e.firedBefore >= 0
                  /\ e.at - e.firedBefore <= cooldown_period) => ~e.admitted
            /\ (e.firedBefore >= 0
                  /\ e.at - e.firedBefore > cooldown_period) => e.admitted

\* The part of C2 the code keeps: the window after a call that returned
\* true is half-open.
C2_WindowAfterAdmit ==
    \A i \in DOMAIN cycleLog :
        LET e == cycleLog[i]
        IN  e.firedBefore >= 0 =>
               (e.admitted <=> e.at - e.firedBefore > cooldown_period)

\* C3: in one process, of any two send_email calls for the same alert type
\* the later one was admitted at a clock reading more than cooldown_period
\* after the one the earlier was admitted at.
C3_OneFirePerWindow ==
    \A m, n \in notifyLog :
        (m.type = n.type /\ m.seq < n.seq) =>
            n.at - m.at > cooldown_period

\* C3 witness: the same type was sent in two passes.
C3_Witness ==
    \E m, n \in notifyLog :
        m.type = n.type /\ m.seq < n.seq /\ n.at - m.at >= check_interval

\* C4 (as claimed): of the candidates of one type in a pass only the first
\* can be admitted; every later one is rejected.
C4_OnlyFirstOfTypePerPass ==
    \A i, j \in DOMAIN cycleLog :
        (i < j /\ cycleLog[i].type = cycleLog[j].type) =>
            ~cycleLog[j].admitted

\* C4 (amended): once a candidate of a type was admitted in a pass at clock
\* reading t, a later candidate of that type in the pass is rejected when
\* its call reads the clock no more than cooldown_period after t.
C4_LaterRejectedWithinWindow ==
    \A i, j \in DOMAIN cycleLog :
        (/\ i < j
         /\ cycleLog[i].type = cycleLog[j].type
         /\ cycleLog[i].admitted
         /\ cycleLog[j].at - cycleLog[i].at <= cooldown_period) =>
            ~cycleLog[j].admitted

\* C4 witness: two candidates of one type in a pass, the first admitted and
\* sent, the second rejected at a later clock reading.
C4_Witness ==
    \E i, j \in DOMAIN cycleLog :
        /\ i < j
        /\ cycleLog[i].type = cycleLog[j].type
        /\ cycleLog[i].admitted
        /\ cycleLog[i].sent \in {"ok", "failed"}
        /\ cycleLog[j].at > cycleLog[i].at
        /\ ~cycleLog[j].admitted

\* C5: a send_email failure for an admitted candidate stays inside the
\* pass: the pass never turns to the 30 second backoff, the candidate is not
\* gated or sent a second time, the for loop goes on in order with the
\* candidates after it until all are gated, the loop then sleeps
\* check_interval, and self.running is left as it was.
C5_NotifierFailureContained ==
    \A i \in DOMAIN cycleLog :
        cycleLog[i].sent = "failed" =>
            /\ pc \in {"gate", "send", "sleep", "loop", "exited"}
            /\ \A k \in DOMAIN cycleLog : cycleLog[k].idx = k
            /\ pc = "gate" => idx = Len(cycleLog) + 1
            /\ pc = "send" => idx = Len(cycleLog)
            /\ pc \in {"sleep", "loop"} => Len(cycleLog) = Len(all_alerts)
            /\ pc = "loop" => lastSleep = check_interval
            /\ pc = "exited" =>
                  \/ interrupted
                  \/ /\ stopCalled
                     /\ Len(cycleLog) = Len(all_alerts)
                     /\ lastSleep = check_interval
            /\ running \/ stopCalled \/ interrupted

\* C5 witness: a pass in which a send failed, a later candidate was sent,
\* and the interval sleep was done with the loop still running.
C5_Witness ==
    /\ pc = "loop"
    /\ running
    /\ ~stopCalled
    /\ \E i, j \in DOMAIN cycleLog :
          /\ i < j
          /\ cycleLog[i].sent = "failed"
          /\ cycleLog[j].sent = "ok"

\* C6: after a failed send_email for a type admitted at t, alert_history
\* keeps an entry for the type that is t or more than cooldown_period later,
\* and every other send_email call for the type was admitted more than
\* cooldown_period before or after t.
C6_FailedSendKeepsCooldown ==
    \A n \in notifyLog :
        ~n.ok =>
            /\ n.type \in DOMAIN alert_history
            /\ \/ alert_history[n.type] = n.at
               \/ alert_history[n.type] - n.at > cooldown_period
            /\ \A m \in notifyLog :
                  (m.type = n.type /\ m.seq # n.seq) =>
                      \/ m.at - n.at > cooldown_period
                      \/ n.at - m.at > cooldown_period
            /\ \A k \in DOMAIN cycleLog :
                  (/\ cycleLog[k].type = n.type
                   /\ cycleLog[k].admitted
                   /\ cycleLog[k].at > n.at) =>
                      cycleLog[k].at - n.at > cooldown_period

\* C6 witness: a type whose send failed was rejected in a later pass, inside
\* the window of the failed send's admit.
C6_Witness ==
    \E n \in notifyLog :
        /\ ~n.ok
        /\ alert_history[n.type] = n.at
        /\ \E k \in DOMAIN cycleLog :
              /\ cycleLog[k].type = n.type
              /\ cycleLog[k].at >= n.at + check_interval
              /\ ~cycleLog[k].admitted

\* C7: after a collection failure the loop is in its 30 second backoff or
\* has finished exactly that wait; a new pass starts only then; the failure
\* neither clears self.running nor ends the loop (only stop_monitoring or an
\* interrupt does).
C7_BackoffAfterCollectionFailure ==
    failedAt >= 0 =>
        /\ pc \in {"backoff", "loop", "collect", "exited"}
        /\ pc \in {"loop", "collect"} =>
              /\ lastSleep = 30
              /\ now = failedAt + 30
        /\ pc = "exited" =>
              \/ interrupted
              \/ stopCalled /\ lastSleep = 30 /\ now = failedAt + 30
        /\ running \/ stopCalled \/ interrupted

\* C7 witness: a new pass has started after a failed one, with a check
\* interval that is not 30.
C7_Witness ==
    /\ pc = "collect"
    /\ failedAt >= 0
    /\ running
    /\ check_interval # 30

\* C8 (as claimed, its safety part): once stop_monitoring was called on a
\* monitor whose start_monitoring was called, no pass begins.
C8_NoPassAfterStop == stopCalled => ~cycleAfterStop

\* C9 (as claimed): self.running is true only between start_monitoring and
\* the exit of its loop; once the loop has exited, by stop_monitoring or by
\* an interrupt, self.running is false.
C9_IdleWheneverLoopExited ==
    /\ pc = "exited" => ~running
    /\ running => pc \notin {"idle", "starting", "exited"}

\* What the code keeps of C9: the flag is false until start_monitoring sets
\* it, and false after an exit that was not an interrupt caught in the loop.
C9_IdleBeforeStart ==
    /\ pc \in {"idle", "starting"} => ~running
    /\ (pc = "exited" /\ ~interrupted) => ~running

\* The candidates of one alert type, in all_alerts order.
OfType(ty) == SelectSeq(all_alerts, LAMBDA a : a.type = ty)

\* A host-wide gauge's rule: one candidate iff the value is over the
\* threshold, carrying the value and the given priority.
GaugeRule(ty, value, threshold, priority) ==
    IF value > threshold
       THEN /\ Len(OfType(ty)) = 1
            /\ OfType(ty)[1].value = value
            /\ OfType(ty)[1].priority = priority
       ELSE OfType(ty) = <<>>

Margin(value, margin) == IF value > margin THEN "high" ELSE "medium"

\* C10: all_alerts holds a candidate for a metric iff its value is over its
\* threshold (configured for cpu, load, memory, disk; 50 for swap and for
\* each of the five processes using most cpu), each rule whatever the other
\* gauges read; priority is high iff the value is over 95 (cpu, memory,
\* disk) or 8 (load), else medium; swap is always high, a process always
\* medium.
C10_EvaluatorRules ==
    pc = "gate" =>
        LET th == config.thresholds
            readable == SelectSeq(snapshot.partitions,
                            LAMBDA p : ~p.denied /\ p.percent > th.disk_percent)
            disks == OfType("disk_high")
            procs == OfType("process_high_cpu")
            busy == {i \in DOMAIN snapshot.processes :
                        snapshot.processes[i] > 50}
        IN  /\ \A k \in DOMAIN all_alerts : all_alerts[k].type \in AlertTypes
            /\ GaugeRule("cpu_high", snapshot.cpu_percent, th.cpu_percent,
                         Margin(snapshot.cpu_percent, 95))
            /\ GaugeRule("load_high", snapshot.load_avg, th.load_average,
                         Margin(snapshot.load_avg, 8))
            /\ GaugeRule("memory_high", snapshot.memory_percent,
                         th.memory_percent,
                         Margin(snapshot.memory_percent, 95))
            /\ GaugeRule("swap_high", snapshot.swap_percent, 50, "high")
            /\ Len(disks) = Len(readable)
            /\ \A k \in DOMAIN disks :
                  /\ disks[k].value = readable[k].percent
                  /\ disks[k].priority = Margin(readable[k].percent, 95)
            /\ Len(procs) = Min(5, Cardinality(busy))
            /\ \A k \in DOMAIN procs :
                  /\ procs[k].id \in busy
                  /\ procs[k].value = snapshot.processes[procs[k].id]
                  /\ procs[k].priority = "medium"
                  /\ \A i \in DOMAIN snapshot.processes :
                        (\A q \in DOMAIN procs : procs[q].id # i) =>
                            snapshot.processes[i] <= procs[k].value
            /\ \A k, q \in DOMAIN procs : k # q => procs[k].id # procs[q].id

\* C10 witness: every host-wide gauge over its threshold and its margin,
\* one readable mount over the disk threshold behind an unreadable one, and
\* six processes over 50 of which five give a candidate.
C10_Witness ==
    /\ pc = "gate"
    /\ Len(snapshot.processes) = 6
    /\ \A i \in 1..6 : snapshot.processes[i] > 50
    /\ Len(OfType("process_high_cpu")) = 5
    /\ Len(OfType("cpu_high")) = 1
    /\ OfType("cpu_high")[1].priority = "high"
    /\ Len(OfType("disk_high")) = 1
    /\ Len(all_alerts) = 10

\* Place of an alert type in the order the checks are called and report.
Rank(ty) ==
    CASE ty = "cpu_high" -> 1
      [] ty = "load_high" -> 2
      [] ty = "memory_high" -> 3
      [] ty = "swap_high" -> 4
      [] ty = "disk_high" -> 5
      [] ty = "process_high_cpu" -> 6

\* C11: within one pass the candidates are gated and sent in the order
\* cpu, load, memory, swap, disk by mount enumeration, processes by
\* descending cpu among the five busiest; the k-th should_send_alert call
\* is for the k-th candidate, and it is made only when the call and the
\* send_email, if any, of every earlier candidate have finished.
C11_GatedInCheckOrder ==
    /\ \A i, j \in DOMAIN all_alerts :
          i < j =>
             /\ Rank(all_alerts[i].type) <= Rank(all_alerts[j].type)
             /\ all_alerts[i].type = "disk_high"
                   /\ all_alerts[j].type = "disk_high"
                   => all_alerts[i].id < all_alerts[j].id
             /\ all_alerts[i].type = "process_high_cpu"
                   /\ all_alerts[j].type = "process_high_cpu"
                   => all_alerts[i].value >= all_alerts[j].value
    /\ \A i \in DOMAIN all_alerts :
          all_alerts[i].type = "process_high_cpu" =>
             Cardinality({p \in DOMAIN snapshot.processes :
                 snapshot.processes[p] > all_alerts[i].value}) < TopProcesses
    /\ Len(cycleLog) <= Len(all_alerts)
    /\ \A k \in DOMAIN cycleLog :
          /\ cycleLog[k].idx = k
          /\ cycleLog[k].type = all_alerts[k].type
          /\ k < Len(cycleLog) =>
                /\ cycleLog[k].sent # "pending"
                /\ cycleLog[k].at <= cycleLog[k + 1].at
    /\ pc = "send" => idx = Len(cycleLog) /\ LastGate.sent = "pending"
    /\ pc = "gate" => idx = Len(cycleLog) + 1

\* C11 witness: a finished pass gated swap, two mounts around an unreadable
\* one and two processes, in that order, with a mail sent and one failed
\* before the later candidates were gated.
C11_Witness ==
    /\ pc = "exited"
    /\ Len(cycleLog) = 5
    /\ cycleLog[1].type = "swap_high" /\ cycleLog[1].sent = "ok"
    /\ cycleLog[2].type = "disk_high" /\ cycleLog[2].sent = "failed"
    /\ all_alerts[2].id = 1 /\ all_alerts[3].id = 3
    /\ all_alerts[4].value > all_alerts[5].value
    /\ cycleLog[5].type = "process_high_cpu"

C13_SecondCheckSuppressedInWindow ==
    \A k \in DOMAIN cycleLog :
        LET e == cycleLog[k]
        IN  mode = "check" /\ e.first /\ e.type \in DOMAIN earlier =>
               (e.admitted <=> e.at - earlier[e.type] > cooldown_period)

\* C13 (amended): the second --check run is a new process whose
\* alert_history starts empty, so its first candidate of a type is admitted
\* exactly when the clock reading exceeds the cooldown period, whenever the
\* first run fired that type, and an admitted candidate is sent again.
C13_SecondCheckDecidedAfresh ==
    \A k \in DOMAIN cycleLog :
        LET e == cycleLog[k]
        IN  mode = "check" /\ run > 1 /\ e.first =>
               /\ e.admitted <=> e.at > cooldown_period
               /\ e.admitted /\ pc = "exited" => e.sends = 1

\* C13 witness: the second --check run admitted and sent an alert of a type
\* the first run had fired no more than the cooldown period before.
C13_Witness ==
    /\ mode = "check"
    /\ run = 2
    /\ pc = "exited"
    /\ \E k \in DOMAIN cycleLog :
          /\ cycleLog[k].type \in DOMAIN earlier
          /\ cycleLog[k].at - earlier[cycleLog[k].type] <= cooldown_period
          /\ cycleLog[k].admitted
          /\ cycleLog[k].sends = 1

\* C14: the cooldown map lives only in the process's memory: a newly
\* constructed EmailAlertSystem has an empty map, and the first candidate
\* of a type a process gates finds no entry and is decided against
\* lastFired = 0, however recently an earlier process fired that type.
C14_RestartForgetsCooldowns ==
    /\ pc = "idle" => alert_history = EmptyHistory
    /\ \A k \in DOMAIN cycleLog :
          LET e == cycleLog[k]
          IN  e.first =>
                 /\ e.firedBefore = -1
                 /\ e.admitted <=> e.at - 0 > cooldown_period

\* C14 witness: after a restart the first candidate of a type was admitted
\* although the earlier process had fired that type no more than the
\* cooldown period before.
C14_Witness ==
    /\ run = 2
    /\ \E k \in DOMAIN cycleLog :
          /\ cycleLog[k].first
          /\ cycleLog[k].type \in DOMAIN earlier
          /\ cycleLog[k].at - earlier[cycleLog[k].type] <= cooldown_period
          /\ cycleLog[k].admitted

\* C15: a mount whose usage query raises PermissionError is skipped and
\* the pass goes on: that mount is neither in the disk-usage table nor
\* among the candidates, and every readable mount, before or after it, is
\* in the table with its percentage and is a candidate exactly when the
\* percentage exceeds the disk threshold.
C15_DeniedMountSkipped ==
    pc = "gate" =>
        LET parts == snapshot.partitions
            disk == OfType("disk_high")
        IN  /\ DOMAIN disk_usage \subseteq DOMAIN parts
            /\ \A i \in DOMAIN parts :
                  IF parts[i].denied
                     THEN /\ i \notin DOMAIN disk_usage
                          /\ \A k \in DOMAIN disk : disk[k].id # i
                     ELSE /\ i \in DOMAIN disk_usage
                          /\ disk_usage[i] = parts[i].percent
                          /\ parts[i].percent > config.thresholds.disk_percent
                                <=> \E k \in DOMAIN disk :
                                       /\ disk[k].id = i
                                       /\ disk[k].value = parts[i].percent

\* C15 witness: the second of three mounts was unreadable and the pass
\* reports the first and the third, both as candidates.
C15_Witness ==
    /\ pc = "gate"
    /\ Len(snapshot.partitions) = 3
    /\ ~snapshot.partitions[1].denied
    /\ snapshot.partitions[2].denied
    /\ ~snapshot.partitions[3].denied
    /\ DOMAIN disk_usage = {1, 3}
    /\ Len(OfType("disk_high")) = 2
    /\ OfType("disk_high")[1].id = 1
    /\ OfType("disk_high")[2].id = 3

\* C16: only a should_send_alert call changes the cooldown map: metric
\* collection and evaluation, the report and the send_email call, whether
\* it succeeds or fails, the interval sleep, the 30-second backoff,
\* start_monitoring and stop_monitoring leave every entry as it was.
C16_OnlyAdmitChangesCooldowns ==
    [][alert_history' # alert_history =>
           /\ GateCall
           /\ pc = "gate"
           /\ pc' = "send"]_vars

\* C16 witness: the map still holds the entry of an admitted candidate
\* after its send_email call failed, the interval sleep ended and
\* stop_monitoring was called.
C16_Witness ==
    /\ alert_history # EmptyHistory
    /\ passStart = EmptyHistory
    /\ \E n \in notifyLog :
          ~n.ok /\ n.type \in DOMAIN alert_history
                /\ alert_history[n.type] = n.at
    /\ lastSleep = check_interval
    /\ pc = "loop"
    /\ stopCalled

\* C17: load_config merges the defaults per top-level section only: a
\* section the file lacks becomes the whole default section, a section the
\* file has is kept exactly as read, a key missing inside it staying
\* missing, and without a file the result is the defaults, which are also
\* written to the file.
C17_ShallowMerge ==
    [][pc = "constructing" /\ pc' = "idle" =>
          LET file == config_file
              loaded == config'
          IN  IF file.exists
                 THEN /\ DOMAIN loaded =
                            DOMAIN file.content \cup DOMAIN default_config
                      /\ \A key \in DOMAIN default_config :
                            IF key \in DOMAIN file.content
                               THEN /\ loaded[key] = file.content[key]
                                    /\ DOMAIN loaded[key] =
                                          DOMAIN file.content[key]
                               ELSE loaded[key] = default_config[key]
                      /\ config_file' = file
                 ELSE /\ loaded = default_config
                      /\ config_file' = FileWith(default_config)
    ]_vars

\* C17 witness: a file without a thresholds section and with a monitoring
\* section lacking cooldown_period was loaded: thresholds are the defaults
\* and cooldown_period is still missing.
C17_Witness ==
    /\ pc = "idle"
    /\ "thresholds" \notin DOMAIN config_file.content
    /\ config.thresholds = default_config.thresholds
    /\ "monitoring" \in DOMAIN config_file.content
    /\ "cooldown_period" \notin DOMAIN config.monitoring
    /\ config.monitoring.check_interval = 20

\* Nothing of the pass took effect: no should_send_alert call returned and
\* the cooldown map is as the pass found it.
PassDidNothing == cycleLog = <<>> /\ alert_history = passStart

\* The pass gated every candidate of its snapshot and finished every send.
PassGatedAll ==
    /\ failedAt = -1
    /\ Len(cycleLog) = Len(all_alerts)
    /\ \A k \in DOMAIN cycleLog : cycleLog[k].sent # "pending"

\* C18 (as claimed): an exception leaves run_system_check only during
\* metric collection, so every pass either makes no should_send_alert and
\* no send_email call and leaves the cooldown map unchanged, or gates every
\* candidate of its snapshot.
C18_PassAllOrNothing ==
    /\ pc = "backoff" => failedAt >= 0
    /\ pc \notin {"collect", "gate", "send"} =>
          PassDidNothing \/ PassGatedAll

\* C18 (amended): an Exception leaves run_system_check during metric
\* collection or, when the monitoring section lacks cooldown_period, at
\* the first should_send_alert call, before anything took effect; a pass
\* that no KeyboardInterrupt cut short did nothing or gated every
\* candidate.
C18_PassAllOrNothingUnlessInterrupted ==
    /\ pc = "backoff" =>
          /\ PassDidNothing
          /\ \/ failedAt >= 0
             \/ /\ "cooldown_period" \notin DOMAIN config.monitoring
                /\ all_alerts # <<>>
    /\ pc \notin {"collect", "gate", "send"} /\ ~interrupted =>
          PassDidNothing \/ PassGatedAll

\* C18 witness: a pass whose collection succeeded and found a cpu
\* candidate ended in the backoff with nothing gated and the cooldown map
\* as it was.
C18_Witness ==
    /\ pc = "backoff"
    /\ failedAt = -1
    /\ all_alerts # <<>>
    /\ all_alerts[1].type = "cpu_high"
    /\ cycleLog = <<>>
    /\ alert_history = passStart

\* The passes the liveness claim speaks of, as they end: the loop is at
\* its sleep or its backoff, collection succeeded and the snapshot holds a
\* candidate of type ty.
PassEndedWith(ty) ==
    /\ mode = "monitor"
    /\ pc \in {"sleep", "backoff"}
    /\ failedAt = -1
    /\ \E i \in DOMAIN all_alerts : all_alerts[i].type = ty

\* Every candidate of type ty of the pass was gated, and at its clock
\* reading t send_email had been called for ty for a reading no more than
\* window before t, this pass's call included, unless t itself does not
\* exceed window.
NotifiedWithin(ty, window) ==
    /\ \E k \in DOMAIN cycleLog : cycleLog[k].type = ty
    /\ \A k \in DOMAIN cycleLog :
          cycleLog[k].type = ty =>
             \/ cycleLog[k].at <= window
             \/ \E n \in notifyLog :
                   /\ n.type = ty
                   /\ n.at <= cycleLog[k].at
                   /\ cycleLog[k].at - n.at <= window

\* send_email was called for a cpu_high candidate.
CpuNotified == \E n \in notifyLog : n.type = "cpu_high"

\* C19 (as claimed), in the form a finite run refutes: while the loop keeps
\* running and collection succeeds, by the end of a pass that had a
\* candidate of some type send_email was called for that type no longer
\* ago than the cooldown period, or in this very pass where no cooldown
\* period is configured: nothing but the cooldown holds an alert back, and
\* never for ever.
C19_NeverSuppressedForever ==
    \A ty \in AlertTypes :
        PassEndedWith(ty) =>
           NotifiedWithin(ty,
               IF "cooldown_period" \in DOMAIN config.monitoring
                  THEN cooldown_period ELSE 0)

\* C19 (amended): the same when the monitoring section holds
\* cooldown_period and every call returns; and a type with a candidate in a
\* pass is never without a send_email call for longer than the cooldown
\* period, so that the calls recur as time advances.
C19_NeverSuppressedForeverWithCooldown ==
    /\ "cooldown_period" \in DOMAIN config.monitoring => <>CpuNotified
    /\ [](\A ty \in AlertTypes :
             PassEndedWith(ty)
                /\ "cooldown_period" \in DOMAIN config.monitoring
                => NotifiedWithin(ty, cooldown_period))

\* C19 witness: cpu_high had a candidate in two passes running and
\* send_email was called for it in both, the second call more than the
\* cooldown period after the first.
C19_Witness ==
    /\ PassEndedWith("cpu_high")
    /\ \E m, n \in notifyLog :
          /\ m.type = "cpu_high"
          /\ n.type = "cpu_high"
          /\ n.at - m.at > cooldown_period
          /\ n.at = cycleLog[1].at

====
